---- MODULE Spec2Model ----
(***************************************************************************)
(* A model of crack.py: a search for a first name whose SHA-1 digest       *)
(* equals a given digest.  Strings are sequences of one-character strings. *)
(***************************************************************************)
EXTENDS Integers, Sequences, FiniteSets, TLC

\* ------------------------------------------------------------------------
\* Bounds of the model
\* ------------------------------------------------------------------------

\* the longest dataset file, in lines, of the small specification, two longer
\* files apart
MaxLines == 2

\* the largest --max-attempts of the small specification
MaxAttemptsArg == 3

\* the longest dataset file, in lines, of the specification with fairness
MaxFairLines == 2

\* how far beyond two progress periods the long runs go
ProgressSlack == 1

\* ------------------------------------------------------------------------
\* Program constants
\* ------------------------------------------------------------------------

\* len(args.hash) != 40
HashLen == 40

\* attempts % 1000 == 0
ProgressEvery == 1000

\* sys.exit(1)
ExitInvalid == 1

\* ------------------------------------------------------------------------
\* Strings
\* ------------------------------------------------------------------------

Range(s) == {s[k] : k \in 1..Len(s)}

UpperLetters ==
  <<"A","B","C","D","E","F","G","H","I","J","K","L","M",
    "N","O","P","Q","R","S","T","U","V","W","X","Y","Z">>

LowerLetters ==
  <<"a","b","c","d","e","f","g","h","i","j","k","l","m",
    "n","o","p","q","r","s","t","u","v","w","x","y","z">>

Digits == <<"0","1","2","3","4","5","6","7","8","9">>

Whitespace == {" ", "\n", "\t", "\r"}

\* the characters of '0123456789abcdefABCDEF'
HexChars ==
  {"0","1","2","3","4","5","6","7","8","9",
   "a","b","c","d","e","f","A","B","C","D","E","F"}

\* the lower-case letter of every upper-case letter
ToLower ==
  [c \in Range(UpperLetters) |->
     LowerLetters[CHOOSE k \in 1..Len(UpperLetters) : UpperLetters[k] = c]]

\* the upper-case letter of every lower-case letter
ToUpper ==
  [c \in Range(LowerLetters) |->
     UpperLetters[CHOOSE k \in 1..Len(LowerLetters) : LowerLetters[k] = c]]

\* str.lower() on one ASCII character
LowerChar(c) == IF c \in DOMAIN ToLower THEN ToLower[c] ELSE c

\* str.upper() on one ASCII character
UpperChar(c) == IF c \in DOMAIN ToUpper THEN ToUpper[c] ELSE c

\* str.lower()
Lower(s) == [k \in 1..Len(s) |-> LowerChar(s[k])]

\* str.upper()
Upper(s) == [k \in 1..Len(s) |-> UpperChar(s[k])]

\* ------------------------------------------------------------------------
\* hashlib.sha1(...).hexdigest(), by its values on the names of the model
\* ------------------------------------------------------------------------

sha1_hexdigest(s) ==
  CASE s = <<"a","l">> ->
       <<"2","f","9","e","e","2","b","3","3","6","6","8","2","0","1","2","c","b","4","4","5","d","a","6","f","3","a","0","a","5","2","c","6","8","c","a","f","4","7","1">>
    [] s = <<"A","l">> ->
       <<"f","5","6","f","7","1","4","2","9","9","4","9","8","c","5","d","7","6","b","c","0","3","4","f","9","6","4","d","6","c","9","c","c","5","a","3","d","3","9","3">>
    [] s = <<"a","L">> ->
       <<"f","5","3","e","1","d","8","e","6","c","f","e","2","7","e","2","e","3","f","1","c","e","8","6","6","3","2","e","f","0","2","0","9","7","c","0","f","4","5","3">>
    [] s = <<"A","L">> ->
       <<"c","f","6","8","1","c","f","b","f","3","c","2","8","2","5","2","8","f","e","a","2","8","5","9","6","5","3","6","f","5","9","2","6","3","0","8","4","2","e","7">>
    [] s = <<"b","o">> ->
       <<"d","c","4","5","f","e","0","2","3","4","8","2","b","3","b","8","9","0","b","5","e","5","7","4","e","5","3","c","1","d","0","5","1","f","4","5","b","1","e","f">>
    [] s = <<"B","o">> ->
       <<"0","a","d","6","3","1","f","e","7","c","0","a","f","b","b","8","e","4","6","d","f","f","6","4","3","e","c","b","6","f","1","5","7","f","0","f","1","7","c","2">>
    [] s = <<"b","O">> ->
       <<"e","4","5","6","4","f","1","b","6","1","6","b","c","5","c","8","6","0","d","7","6","f","b","5","a","1","8","4","5","2","c","e","9","e","5","9","2","0","e","9">>
    [] s = <<"B","O">> ->
       <<"7","6","7","d","1","e","8","a","1","c","7","8","f","e","a","1","e","5","3","0","e","2","d","c","d","3","7","1","f","6","6","3","3","8","8","2","1","4","4","e">>
    [] s = <<"c","y">> ->
       <<"3","1","a","c","e","4","a","d","1","8","3","1","a","a","e","8","6","6","c","d","7","9","5","1","a","8","4","2","c","a","3","e","3","8","f","2","1","9","8","1">>
    [] s = <<"C","y">> ->
       <<"c","d","c","1","a","9","a","3","9","3","a","3","b","2","c","7","0","b","a","2","6","7","b","0","6","3","e","7","f","5","9","b","b","0","4","d","d","0","b","0">>
    [] s = <<"c","Y">> ->
       <<"2","1","0","f","0","8","c","d","0","2","5","1","9","a","8","7","b","1","8","4","6","6","c","7","8","c","f","1","8","a","6","6","2","5","4","4","0","7","2","8">>
    [] s = <<"C","Y">> ->
       <<"c","4","4","d","e","8","0","e","9","3","e","0","2","b","f","e","e","7","0","6","c","6","5","0","0","7","a","9","e","6","f","4","e","1","6","b","d","e","0","7">>

\* ------------------------------------------------------------------------
\* check_name_hash and the format check of main
\* ------------------------------------------------------------------------

\* check_name_hash without name.lower(): the digest of the name as given
check_name_hash_as_given(name, target_hash) ==
  [matches |-> sha1_hexdigest(name) = target_hash,
   name_hash |-> sha1_hexdigest(name)]

\* check_name_hash(name, target_hash): (name_hash == target_hash, name_hash)
check_name_hash(name, target_hash) ==
  [matches |-> sha1_hexdigest(Lower(name)) = target_hash,
   name_hash |-> sha1_hexdigest(Lower(name))]

\* the format check of main with the length test alone
HashFormatLengthOnly(h) == Len(h) = HashLen

\* not (len(args.hash) != 40 or not all(c in '0123...EF' for c in args.hash))
HashFormatOk(h) ==
  ~(Len(h) # HashLen \/ ~(\A k \in 1..Len(h) : h[k] \in HexChars))

\* target_hash.lower() left out
TargetAsGiven(h) == h

\* target_hash = target_hash.lower()
NormalizeTarget(h) == Lower(h)

\* ------------------------------------------------------------------------
\* get_common_names: the dataset file and its parsing
\* ------------------------------------------------------------------------

\* the one element of a set of one element
The(S) == CHOOSE x \in S : TRUE

\* str.strip()
Strip(s) ==
  LET keep == {k \in 1..Len(s) : s[k] \notin Whitespace}
  IN  IF keep = {} THEN <<>>
      ELSE LET first == CHOOSE k \in keep : \A j \in keep : k <= j
               last  == CHOOSE k \in keep : \A j \in keep : j <= k
           IN  SubSeq(s, first, last)

\* str.split(','): the pieces between the commas, one more than the commas
Split(s) ==
  LET commas == {k \in 1..Len(s) : s[k] = ","}
      starts == {1} \cup {k + 1 : k \in commas}
  IN  [j \in 1..(Cardinality(commas) + 1) |->
         LET from == CHOOSE b \in starts :
                       Cardinality({c \in commas : c < b}) = j - 1
             later == {c \in commas : c >= from}
             to == IF later = {} THEN Len(s)
                   ELSE (CHOOSE c \in later : \A d \in later : c <= d) - 1
         IN  SubSeq(s, from, to)]

\* the digits of an int() literal: surrounding whitespace and one sign dropped
IntBody(s) ==
  LET t == Strip(s)
  IN  IF t # <<>> /\ t[1] \in {"+", "-"} THEN Tail(t) ELSE t

\* int(s) does not raise ValueError
IsIntLiteral(s) ==
  /\ IntBody(s) # <<>>
  /\ \A c \in Range(IntBody(s)) : c \in Range(Digits)

DigitValue(c) == (CHOOSE k \in 1..Len(Digits) : Digits[k] = c) - 1

RECURSIVE DigitsValue(_, _)
\* the number the first n digits of d write
DigitsValue(d, n) ==
  IF n = 0 THEN 0
  ELSE 10 * DigitsValue(d, n - 1) + DigitValue(d[n])

\* int(s)
IntOf(s) ==
  LET t == Strip(s)
  IN  IF t # <<>> /\ t[1] = "-"
      THEN 0 - DigitsValue(IntBody(s), Len(IntBody(s)))
      ELSE DigitsValue(IntBody(s), Len(IntBody(s)))

\* name, gender, count = line.strip().split(','); int(count): no ValueError
LineParses(line) ==
  \E stripped \in {Strip(line)} : \E fields \in {Split(stripped)} :
    Len(fields) = 3 /\ IsIntLiteral(fields[3])

\* the (name, int(count)) of one line
ParsedLine(line) ==
  The({<<fields[1], IntOf(fields[3])>> :
         fields \in {Split(stripped) : stripped \in {Strip(line)}}})

RECURSIVE ByCountDescending(_, _)
\* the entries of names_list whose count is in counts: descending by count,
\* equal counts in their order in names_list
ByCountDescending(names_list, counts) ==
  IF counts = {} THEN <<>>
  ELSE The({LET HasTop(x) == x[2] = top
            IN  SelectSeq(names_list, HasTop)
                  \o ByCountDescending(names_list, counts \ {top}) :
            top \in {c \in counts : \A d \in counts : d <= c}})

\* [name for name, count in pairs]
NamesOf(pairs) == The({[p \in 1..Len(l) |-> l[p][1]] : l \in {pairs}})

\* sorted(names_list, key=lambda x: x[1], reverse=True), names only: the
\* sort is stable, also with reverse=True
SortedNames(names_list) ==
  The({NamesOf(ByCountDescending(l, {l[k][2] : k \in 1..Len(l)})) :
         l \in {<<>> \o names_list}})

\* the steps of get_common_names that can raise before the file is parsed
LoadFaults(cached) ==
  {"none", "mkdir", "open"} \cup
  (IF cached THEN {} ELSE {"download", "write", "unzip"})

\* get_common_names with the try inside the loop: a line that does not parse
\* ends the reading and the names read so far are returned
get_common_names_partial(cached, fault, lines) ==
  IF fault # "none" THEN [raised |-> FALSE, names |-> <<>>]
  ELSE LET bad == {k \in 1..Len(lines) : ~LineParses(lines[k])}
           upto == IF bad = {} THEN Len(lines)
                   ELSE (CHOOSE k \in bad : \A j \in bad : k <= j) - 1
       IN  [raised |-> FALSE,
            names |-> SortedNames([k \in 1..upto |-> ParsedLine(lines[k])])]

\* get_common_names(): whether it raises, and the list it returns.
\* cached: name_cache/yob1998.txt exists; fault: the step that raises;
\* lines: the lines of yob1998.txt
get_common_names(cached, fault, lines) ==
  IF fault # "none" \/ \E k \in 1..Len(lines) : ~LineParses(lines[k])
  THEN [raised |-> FALSE, names |-> <<>>]
  ELSE [raised |-> FALSE,
        names |-> SortedNames([k \in 1..Len(lines) |-> ParsedLine(lines[k])])]

\* ------------------------------------------------------------------------
\* The inputs of a run
\* ------------------------------------------------------------------------

NameAl == <<"A","l">>
NameBo == <<"B","o">>
NameCy == <<"C","y">>

\* lines of yob1998.txt: name,gender,count
LineAl2 == <<"A","l",",","F",",","2","\n">>
LineBo1 == <<"B","o",",","M",",","1","\n">>
LineCy2 == <<"C","y",",","F",",","2","\n">>
\* a line of two fields, and a line whose count is no number
LineTwoFields == <<"B","o",",","M","\n">>
LineBadCount == <<"C","y",",","F",",","x","\n">>

LineUniverse == {LineAl2, LineBo1, LineCy2, LineTwoFields, LineBadCount}

Files(n) == UNION {[1..m -> LineUniverse] : m \in 0..n}

\* two files of three lines: one to reorder, one with a bad line in the middle
LongerFiles ==
  {<<LineBo1, LineAl2, LineCy2>>, <<LineAl2, LineBadCount, LineBo1>>}

\* the digest no name of the model has
ZeroDigest == [k \in 1..HashLen |-> "0"]

DigestAl == sha1_hexdigest(Lower(NameAl))
DigestBo == sha1_hexdigest(Lower(NameBo))

\* hash arguments that pass the format check of main
WellFormedHashes == {Upper(DigestAl), DigestBo, ZeroDigest}

\* hash arguments that do not
MalformedHashes ==
  {<<>>,
   SubSeq(DigestAl, 1, HashLen - 1),
   Append(DigestAl, "0"),
   [DigestAl EXCEPT ![2] = "g"],
   [ZeroDigest EXCEPT ![HashLen] = "Z"]}

\* the names names.get_first_name() can return, per installation
Pools == {{NameAl}, {NameBo, NameCy}}

NotFound == [found |-> FALSE, name |-> <<>>, hash |-> <<>>]

Found(n, h) == [found |-> TRUE, name |-> n, hash |-> h]

\* ------------------------------------------------------------------------
\* State
\* ------------------------------------------------------------------------

VARIABLES
  hash,          \* args.hash
  max_attempts,  \* args.max_attempts
  dataset,       \* the lines of name_cache/yob1998.txt once it is there
  pool,          \* the names names.get_first_name() draws from
  pc,            \* where the program is
  target_hash,   \* target_hash of generate_and_check_names
  common_names,  \* common_names of generate_and_check_names
  i,             \* how many entries of common_names the for loop has passed
  attempts,      \* attempts of generate_and_check_names
  last,          \* the last call of check_name_hash: its name and its result
  result,        \* what generate_and_check_names returned
  exit_code,     \* the exit status of the process, -1 while it runs
  reported,      \* what main printed at the end
  load_fault,    \* the step of get_common_names that raised, "none" if none
  examined,      \* the candidates passed to check_name_hash, in order
  progress,      \* the attempts values of the "Checked ... names" lines printed
  rand_calls     \* the number of calls of names.get_first_name()

vars ==
  <<hash, max_attempts, dataset, pool, pc, target_hash, common_names, i,
    attempts, last, result, exit_code, reported, load_fault, examined,
    progress, rand_calls>>

inputs == <<hash, max_attempts, dataset, pool>>

InitLocals ==
  /\ pc = "main"
  /\ target_hash = <<>>
  /\ common_names = <<>>
  /\ i = 0
  /\ attempts = 0
  /\ last = [name |-> <<>>, target |-> <<>>, matches |-> FALSE, name_hash |-> <<>>]
  /\ result = NotFound
  /\ exit_code = -1
  /\ reported = "nothing"
  /\ load_fault = "none"
  /\ examined = <<>>
  /\ progress = <<>>
  /\ rand_calls = 0

Init ==
  /\ hash \in WellFormedHashes \cup MalformedHashes
  /\ max_attempts \in -1..MaxAttemptsArg
  /\ dataset \in Files(MaxLines) \cup LongerFiles
  /\ pool \in Pools
  /\ InitLocals

\* the runs whose termination is checked
InitFair ==
  /\ hash \in {DigestAl, Upper(DigestBo), ZeroDigest, [DigestAl EXCEPT ![2] = "g"]}
  /\ max_attempts \in -1..MaxAttemptsArg
  /\ dataset \in Files(MaxFairLines)
  /\ pool \in Pools
  /\ InitLocals

\* a dataset of more than one progress period of lines
LongFile ==
  [k \in 1..(ProgressEvery + 1) |-> IF k % 2 = 1 THEN LineBo1 ELSE LineCy2]

\* runs long enough to print progress lines
InitProgress ==
  /\ hash \in {DigestAl, ZeroDigest, [ZeroDigest EXCEPT ![1] = "x"]}
  /\ max_attempts \in {ProgressEvery, 2 * ProgressEvery + ProgressSlack}
  /\ dataset \in {<<>>, <<LineBo1, LineCy2>>, LongFile}
  /\ pool \in {{NameBo}, {NameAl}}
  /\ InitLocals

\* ------------------------------------------------------------------------
\* Steps
\* ------------------------------------------------------------------------

\* the progress test made on the counter before its increment
ProgressAfter_before_increment(p, a) ==
  IF (a - 1) % ProgressEvery = 0 THEN Append(p, a) ELSE p

\* the progress lines after the counter has become a:
\* if attempts % 1000 == 0: print(f"Checked {attempts} names...")
ProgressAfter(p, a) == IF a % ProgressEvery = 0 THEN Append(p, a) ELSE p

\* main up to the call of generate_and_check_names: the format check
MainValidate ==
  /\ pc = "main"
  /\ IF HashFormatOk(hash)
     THEN pc' = "search" /\ UNCHANGED exit_code
     ELSE pc' = "exit" /\ exit_code' = ExitInvalid
  /\ UNCHANGED <<inputs, target_hash, common_names, i, attempts, last, result,
                 reported, load_fault, examined, progress, rand_calls>>

\* generate_and_check_names up to the for loop
SearchStart ==
  /\ pc = "search"
  /\ target_hash' = NormalizeTarget(hash)
  /\ attempts' = 0
  /\ \E cached \in BOOLEAN : \E fault \in LoadFaults(cached) :
       \E r \in {get_common_names(cached, fault, dataset)} :
         /\ load_fault' = fault
         /\ IF r.raised
            THEN pc' = "raised" /\ UNCHANGED common_names
            ELSE pc' = "ranked" /\ common_names' = r.names
  /\ i' = 0
  /\ UNCHANGED <<inputs, last, result, exit_code, reported, examined,
                 progress, rand_calls>>

\* the for loop with one entry too few: range(len(common_names) - 1)
RankedDone_one_short(k, names) == k >= Len(names) - 1

\* for i, name in enumerate(common_names) has no entry left
RankedDone(k, names) == k = Len(names)

\* the budget test of the for loop with > for >=
BudgetReached_strict(a, m) == a > m

\* the budget test of the for loop made before the increment
BudgetReached_one_early(a, m) == a + 1 >= m

\* if attempts >= max_attempts
BudgetReached(a, m) == a >= m

\* one iteration of for i, name in enumerate(common_names)
RankedStep ==
  /\ pc = "ranked"
  /\ ~RankedDone(i, common_names)
  /\ LET name == common_names[i + 1]
         chk == check_name_hash(name, target_hash)
     IN  /\ attempts' = attempts + 1
         /\ progress' = ProgressAfter(progress, attempts + 1)
         /\ examined' = Append(examined, [name |-> name, phase |-> "ranked"])
         /\ last' = [name |-> name, target |-> target_hash,
                     matches |-> chk.matches, name_hash |-> chk.name_hash]
         /\ IF chk.matches
            THEN /\ result' = Found(name, chk.name_hash)
                 /\ pc' = "report"
                 /\ UNCHANGED i
            ELSE IF BudgetReached(attempts + 1, max_attempts)
            THEN /\ result' = NotFound
                 /\ pc' = "report"
                 /\ UNCHANGED i
            ELSE /\ i' = i + 1
                 /\ UNCHANGED <<result, pc>>
  /\ UNCHANGED <<inputs, target_hash, common_names, exit_code, reported,
                 load_fault, rand_calls>>

\* the for loop has passed every entry of common_names
RankedExhausted ==
  /\ pc = "ranked"
  /\ RankedDone(i, common_names)
  /\ pc' = "random"
  /\ UNCHANGED <<inputs, target_hash, common_names, i, attempts, last, result,
                 exit_code, reported, load_fault, examined, progress,
                 rand_calls>>

\* the condition of the while loop with <= for <
RandomContinues_off_by_one(a, m) == a <= m

\* the condition of while attempts < max_attempts
RandomContinues(a, m) == a < m

\* one iteration of while attempts < max_attempts
RandomStep ==
  /\ pc = "random"
  /\ RandomContinues(attempts, max_attempts)
  /\ \E name \in pool :
       LET chk == check_name_hash(name, target_hash)
       IN  /\ rand_calls' = rand_calls + 1
           /\ attempts' = attempts + 1
           /\ progress' = ProgressAfter(progress, attempts + 1)
           /\ examined' = Append(examined, [name |-> name, phase |-> "random"])
           /\ last' = [name |-> name, target |-> target_hash,
                       matches |-> chk.matches, name_hash |-> chk.name_hash]
           /\ IF chk.matches
              THEN result' = Found(name, chk.name_hash) /\ pc' = "report"
              ELSE UNCHANGED <<result, pc>>
  /\ UNCHANGED <<inputs, target_hash, common_names, i, exit_code, reported,
                 load_fault>>

\* the while loop ends: return None, None
RandomExit ==
  /\ pc = "random"
  /\ ~RandomContinues(attempts, max_attempts)
  /\ result' = NotFound
  /\ pc' = "report"
  /\ UNCHANGED <<inputs, target_hash, common_names, i, attempts, last,
                 exit_code, reported, load_fault, examined, progress,
                 rand_calls>>

\* main after generate_and_check_names has returned: if matching_name: ...
MainReport ==
  /\ pc = "report"
  /\ reported' = IF result.found /\ result.name # <<>>
                 THEN "Found match!" ELSE "No matching name found"
  /\ exit_code' = 0
  /\ pc' = "done"
  /\ UNCHANGED <<inputs, target_hash, common_names, i, attempts, last, result,
                 load_fault, examined, progress, rand_calls>>

Next ==
  \/ MainValidate
  \/ SearchStart
  \/ RankedStep
  \/ RankedExhausted
  \/ RandomStep
  \/ RandomExit
  \/ MainReport

Spec == Init /\ [][Next]_vars

\* the interpreter runs the program on: no step that can be taken waits forever
FairSpec == InitFair /\ [][Next]_vars /\ WF_vars(Next)

SpecProgress == InitProgress /\ [][Next]_vars

TypeOK ==
  /\ pc \in {"main", "search", "ranked", "random", "report", "done", "exit", "raised"}
  /\ attempts \in Nat
  /\ i \in 0..Len(common_names)
  /\ rand_calls \in Nat
  /\ exit_code \in {-1, 0, ExitInvalid}

\* ------------------------------------------------------------------------
\* Properties
\* ------------------------------------------------------------------------

\* generate_and_check_names has returned
Returned == pc \in {"report", "done"}

IsRanked(e) == e.phase = "ranked"

IsRandom(e) == e.phase = "random"

ExaminedNames == [k \in 1..Len(examined) |-> examined[k].name]

\* the names names.get_first_name() has returned so far, in order
RandomDrawn ==
  LET r == SelectSeq(examined, IsRandom)
  IN  [k \in 1..Len(r) |-> r[k].name]

\* the ranked list followed by the names the generator has yielded
CandidateSequence == common_names \o RandomDrawn

\* the digest of a candidate equals the lowercased target
Hits(t, n) == sha1_hexdigest(Lower(n)) = Lower(t)

Least(S) == CHOOSE k \in S : \A j \in S : k <= j

Min(a, b) == IF a <= b THEN a ELSE b

\* C1: with max_attempts >= 1, in every reachable state the attempts counter
\* is at most max_attempts, and so is the number of candidates hashed in the
\* two phases together.
C1_AttemptsWithinBudget ==
  max_attempts >= 1 =>
    /\ attempts <= max_attempts
    /\ Len(examined) <= max_attempts

\* a search that used its whole budget, part of it in each phase
C1_Witness ==
  /\ Returned
  /\ max_attempts >= 2
  /\ attempts = max_attempts
  /\ \E k \in 1..Len(examined) : IsRanked(examined[k])
  /\ \E k \in 1..Len(examined) : IsRandom(examined[k])

\* C2: with max_attempts >= 1, when the search has returned: if one of the
\* first max_attempts positions of the ranked list followed by the generated
\* names holds a name whose digest is the lowercased target, the result is
\* Found with the name of the first such position and that digest; if none
\* does, every one of these positions was examined and the result is NotFound.
C2_FirstMatchWithinBudget ==
  (Returned /\ max_attempts >= 1) =>
    LET S == CandidateSequence
        hits == {k \in 1..Min(Len(S), max_attempts) : Hits(hash, S[k])}
    IN  IF hits # {}
        THEN result = Found(S[Least(hits)], Lower(hash))
        ELSE result = NotFound /\ Len(S) >= max_attempts

\* a match at position max_attempts itself, reached in the random phase after
\* a ranked list without a match
C2_Witness ==
  /\ Returned
  /\ max_attempts >= 2
  /\ result.found
  /\ attempts = max_attempts
  /\ common_names # <<>>
  /\ IsRandom(examined[Len(examined)])

\* C3: with max_attempts >= 1 the search always returns in the end; a NotFound
\* return has attempts = max_attempts; a candidate is only examined while
\* attempts < max_attempts and nothing has matched; and a match returns at once.
C3_ReturnsExactlyAtBudgetOrMatch ==
  /\ [](max_attempts >= 1 /\ Returned /\ ~result.found
          => attempts = max_attempts)
  /\ [](max_attempts >= 1 /\ examined # <<>> /\ last.matches => Returned)
  /\ [][(max_attempts >= 1 /\ examined' # examined)
          => (attempts < max_attempts /\ ~last.matches /\ ~Returned)]_vars
  /\ ((pc = "search" /\ max_attempts >= 1) ~> Returned)

\* NotFound after the whole budget went to random names
C3_Witness ==
  /\ Returned
  /\ ~result.found
  /\ common_names = <<>>
  /\ max_attempts = MaxAttemptsArg
  /\ attempts = max_attempts
  /\ rand_calls = max_attempts

\* the argument is 40 characters, each of them in 0-9, a-f or A-F
FortyHex(h) ==
  /\ Len(h) = 40
  /\ \A k \in 1..Len(h) :
       h[k] \in Range(Digits) \cup {"a","b","c","d","e","f"}
                \cup {"A","B","C","D","E","F"}

\* C4: main starts the search exactly when the hash argument is 40
\* hexadecimal characters; for any other argument the process exits with
\* status 1 and the ranked list was not loaded, no candidate was examined and
\* the random generator was not called.
C4_SearchIffWellFormed ==
  pc # "main" =>
    /\ (pc # "exit") <=> FortyHex(hash)
    /\ ~FortyHex(hash) =>
         /\ pc = "exit"
         /\ exit_code = 1
         /\ load_fault = "none"
         /\ common_names = <<>>
         /\ attempts = 0
         /\ examined = <<>>
         /\ rand_calls = 0

\* an argument of the right length with a character that is no hex digit
C4_Witness ==
  /\ pc = "exit"
  /\ Len(hash) = 40
  /\ exit_code = 1

\* get_common_names failed: a step raised, or a line of the file does not parse
LoadFailed ==
  \/ load_fault # "none"
  \/ \E k \in 1..Len(dataset) : ~LineParses(dataset[k])

\* C5: when get_common_names fails at any step, a line in the middle of the
\* file that does not parse included, generate_and_check_names sees no
\* exception and the empty ranked list; every candidate examined is a random
\* name, and a search (max_attempts >= 0) that ends without a match has
\* examined exactly max_attempts random names.
C5_LoadFailureGivesEmptyList ==
  (pc \in {"ranked", "random", "raised", "report", "done"} /\ LoadFailed) =>
    /\ pc # "raised"
    /\ common_names = <<>>
    /\ \A k \in 1..Len(examined) : IsRandom(examined[k])
    /\ (Returned /\ ~result.found /\ max_attempts >= 0) =>
         /\ rand_calls = max_attempts
         /\ Len(examined) = max_attempts
         /\ attempts = max_attempts

\* a file whose second line of three does not parse, and a search that went
\* through its whole budget on random names
C5_Witness ==
  /\ Returned
  /\ ~result.found
  /\ load_fault = "none"
  /\ Len(dataset) = 3
  /\ LineParses(dataset[1]) /\ ~LineParses(dataset[2]) /\ LineParses(dataset[3])
  /\ max_attempts >= 2
  /\ rand_calls = max_attempts

\* the number of ranked candidates examined so far
RankedExamined == Len(SelectSeq(examined, IsRanked))

\* C6: the candidates examined are ranked[1], ranked[2], ... in this order
\* without a gap, then random names; the random generator is called only
\* after every ranked name was examined without a match, and not at all when
\* a match or the budget ends the search in the ranked phase.
C6_RankedBeforeRandom ==
  /\ RankedExamined <= Len(common_names)
  /\ \A k \in 1..Len(examined) :
       IF k <= RankedExamined
       THEN IsRanked(examined[k]) /\ examined[k].name = common_names[k]
       ELSE IsRandom(examined[k])
  /\ rand_calls = Len(examined) - RankedExamined
  /\ rand_calls > 0 =>
       /\ RankedExamined = Len(common_names)
       /\ \A k \in 1..Len(common_names) : ~Hits(hash, common_names[k])
  /\ (Returned /\ examined # <<>> /\ IsRanked(examined[Len(examined)]))
       => rand_calls = 0

\* a ranked list of two names examined in full, then a random name
C6_Witness ==
  /\ Returned
  /\ Len(common_names) >= 2
  /\ RankedExamined = Len(common_names)
  /\ rand_calls >= 1

\* s in lower case, in upper case, and with the case of one of its first
\* four characters changed
CaseVariants(s) ==
  {Lower(s), Upper(s)} \cup
  {[s EXCEPT ![k] = IF LowerChar(s[k]) = s[k] THEN UpperChar(s[k])
                    ELSE LowerChar(s[k])] : k \in 1..Min(Len(s), 4)}

\* C7: check_name_hash gives for every case variant of the candidate the pair
\* it gave for the candidate, the digest being that of the lowercased name;
\* and the search uses the same target for every case variant of the hash
\* argument, so that it returns for each of them the result it returned.
C7_CaseInsensitive ==
  /\ examined # <<>> =>
       /\ last.name_hash = sha1_hexdigest(Lower(last.name))
       /\ \A v \in CaseVariants(last.name) :
            check_name_hash(v, last.target) =
              [matches |-> last.matches, name_hash |-> last.name_hash]
  /\ pc \in {"ranked", "random", "report", "done"} =>
       \A t \in CaseVariants(hash) :
         /\ NormalizeTarget(t) = target_hash
         /\ Returned =>
              result = IF examined # <<>> /\ Hits(t, last.name)
                       THEN Found(last.name, Lower(t))
                       ELSE NotFound

\* a name with a capital found for a hash argument written in capitals
C7_Witness ==
  /\ Returned
  /\ result.found
  /\ hash = Upper(hash)
  /\ hash # Lower(hash)
  /\ result.name # Lower(result.name)
  /\ result.hash = Lower(hash)

\* what the for loop over names returns for target t and budget m when it
\* returns: the first of the first m names (of the first name, when m < 1)
\* that hits, NotFound if none does
RankedOutcome(t, names, m) ==
  LET n == IF names = <<>> THEN 0 ELSE IF m < 1 THEN 1 ELSE Min(m, Len(names))
      hits == {k \in 1..n : Hits(t, names[k])}
  IN  IF hits = {} THEN NotFound
      ELSE Found(names[Least(hits)], Lower(t))

\* C8: when max_attempts <= len(common_names), the random generator is never
\* called, only ranked names are examined, and the result is a function of
\* the hash argument, the ranked list and max_attempts.
C8_RankedOnlyDeterministic ==
  (Returned /\ max_attempts <= Len(common_names)) =>
    /\ rand_calls = 0
    /\ \A k \in 1..Len(examined) : IsRanked(examined[k])
    /\ result = RankedOutcome(hash, common_names, max_attempts)

\* the budget is exactly the length of the ranked list and nothing matched
C8_Witness ==
  /\ Returned
  /\ ~result.found
  /\ Len(common_names) >= 2
  /\ max_attempts = Len(common_names)
  /\ attempts = max_attempts

\* C9: a progress line is printed for exactly the candidates at which the
\* attempts counter is a positive multiple of 1000, in both phases, the count
\* running on from the ranked phase into the random one; the printing leaves
\* the counter, the order of the candidates and the result as they are
\* without it: the counter is the number of candidates examined, the ranked
\* names come in their order before the random ones, and the result is the
\* first match within max_attempts candidates, NotFound after max_attempts
\* candidates if there is none.
C9_ProgressEveryThousand ==
  /\ progress = [k \in 1..(attempts \div 1000) |-> 1000 * k]
  /\ attempts = Len(examined)
  /\ Returned =>
       /\ \E r \in {RankedExamined} : \A k \in 1..Len(examined) :
            IF k <= r
            THEN IsRanked(examined[k]) /\ examined[k].name = common_names[k]
            ELSE IsRandom(examined[k])
       /\ IF examined # <<>> /\ Hits(hash, examined[Len(examined)].name)
          THEN /\ result = Found(examined[Len(examined)].name, Lower(hash))
               /\ \A k \in 1..(Len(examined) - 1) :
                    ~Hits(hash, examined[k].name)
          ELSE /\ result = NotFound
               /\ attempts = max_attempts

\* a line printed in the ranked phase and the next one in the random phase
C9_Witness ==
  /\ Returned
  /\ progress = <<1000, 2000>>
  /\ IsRanked(examined[1000])
  /\ IsRandom(examined[2000])

\* C10: when max_attempts is 0 or negative, no candidate is examined, the
\* attempts counter stays 0 and the result is never Found, whatever the
\* ranked list holds.
C10_NothingExaminedWithoutBudget ==
  max_attempts <= 0 =>
    /\ attempts = 0
    /\ examined = <<>>
    /\ ~result.found

====
